---- MODULE Spec2Model ----
(***************************************************************************)
(* Model of the image rectification pipeline enhance_scanned_image of      *)
(* src/src/scanner.py (duplicated verbatim in                              *)
(* src/sheet_music_processsor.py).                                         *)
(*                                                                         *)
(* One invocation is a state machine whose program counter walks the       *)
(* statements of the function.  The inputs of an invocation are the file   *)
(* at input_path (decodable or not, and its size) and the contours that    *)
(* cv2.findContours reports for it; a contour is represented by its        *)
(* enclosed area and by the polygon cv2.approxPolyDP returns for it.       *)
(*                                                                         *)
(* Points are records [x, y].  Lengths are irrational in general, so a     *)
(* length is carried as its square (an integer) and int(length) is the     *)
(* integer square root.  Within the coordinate range of the model          *)
(* (coordinates below 2896) the float32 square root truncates to the same  *)
(* integer as the exact one.                                               *)
(***************************************************************************)
EXTENDS Integers, Sequences, FiniteSets, TLC

VARIABLES
    input,        \* the file at input_path: [ok, w, h]
    found,        \* what cv2.findContours returns for the image (unsorted)
    pc,           \* position of the invocation in enhance_scanned_image
    img,          \* img / orig: [w, h] of the decoded raster
    contours,     \* the local `contours` after sorted(...)
    idx,          \* position of the for loop over contours
    examined,     \* indices of contours whose approximation was computed
    usedFallback, \* the for loop's else branch ran
    doc_cnt,      \* the selected quad, a sequence of 4 points
    pts1,         \* reorder(doc_cnt): <<tl, tr, br, bl>>
    widthSq,      \* square of the float `width`
    heightSq,     \* square of the float `height`
    matrix,       \* [built, src, wSq, hSq]: the homography's correspondences
    scanned,      \* size of the warped raster
    scanned_clean,\* size of the binarized raster
    outFile,      \* the file at output_path: [exists, w, h]
    err,          \* exception that left the function, "none" otherwise
    ret,          \* value returned to the caller, "" before return
    calls,        \* two concurrent invocations of enhance_scanned_image
    conv,         \* one invocation of midi_to_mp3 and the files it touches
    req,          \* one request to the HTTP service and the files it touches
    reqs,         \* two concurrent requests and the working directory they share
    play          \* one run of process_and_play_sheet_music

vars == <<input, found, pc, img, contours, idx, examined, usedFallback,
          doc_cnt, pts1, widthSq, heightSq, matrix, scanned, scanned_clean,
          outFile, err, ret, calls, conv, req, reqs, play>>

------------------------------------------------------------------------------
(* Bounds of the model *)

MaxDim == 3

MaxContours == 2

MaxArea == 2

------------------------------------------------------------------------------
(* Values *)

Pt(x, y) == [x |-> x, y |-> y]

Dim(w, h) == [w |-> w, h |-> h]

NoDim == Dim(0, 0)

NoFile == [exists |-> FALSE, w |-> 0, h |-> 0]

NoMatrix == [built |-> FALSE, src |-> <<>>, wSq |-> 0, hSq |-> 0]

OutputPath == "scanned_output.png"

(* values of the variables that take no part in a specification *)
NoCalls == [p |-> <<>>, disk |-> <<>>]

NoConv == [pc |-> "idle"]

NoReq == [pc |-> "idle"]

NoReqs == [r |-> <<>>, files |-> <<>>]

NoPlay == [pc |-> "idle"]

Range(s) == {s[k] : k \in DOMAIN s}

Max2(a, b) == IF a >= b THEN a ELSE b

Abs(a) == IF a < 0 THEN -a ELSE a

------------------------------------------------------------------------------
(* float32 conversion of an integer: exact below 2^24, round-half-even to   *)
(* the 24-bit significand above.                                            *)

RECURSIVE F32Step(_, _)
F32Step(a, p) == IF a < 16777216 * p THEN p ELSE F32Step(a, 2 * p)

ToFloat32(v) ==
    LET a == Abs(v)
        p == F32Step(a, 1)
        q == a \div p
        r == a % p
        m == IF 2 * r < p THEN q
             ELSE IF 2 * r > p THEN q + 1
             ELSE IF q % 2 = 0 THEN q ELSE q + 1
    IN  IF v < 0 THEN -(m * p) ELSE m * p

F32Pt(p) == Pt(ToFloat32(p.x), ToFloat32(p.y))

(* largest r in lo..hi with r * r <= n *)
RECURSIVE ISqrtIter(_, _, _)
ISqrtIter(n, lo, hi) ==
    IF lo >= hi THEN lo
    ELSE LET mid == (lo + hi + 1) \div 2
         IN  IF mid * mid <= n THEN ISqrtIter(n, mid, hi)
             ELSE ISqrtIter(n, lo, mid - 1)

(* variant: the square root rounded to the nearest integer *)
RoundOfSqrt(n) ==
    LET r == ISqrtIter(n, 0, IF n < 46340 THEN n ELSE 46340)
    IN  IF n - r * r > r THEN r + 1 ELSE r

(* int(sqrt(n)): Python's int() truncates toward zero *)
IntOfSqrt(n) == ISqrtIter(n, 0, IF n < 46340 THEN n ELSE 46340)

(* squared value of np.linalg.norm(a - b) *)
NormSq(a, b) == (a.x - b.x) * (a.x - b.x) + (a.y - b.y) * (a.y - b.y)

------------------------------------------------------------------------------
(* sorted(contours, key=cv2.contourArea, reverse=True): stable, descending  *)

RECURSIVE InsertDesc(_, _)
InsertDesc(c, s) ==
    IF s = <<>> THEN <<c>>
    ELSE IF s[Len(s)].area >= c.area THEN Append(s, c)
    ELSE Append(InsertDesc(c, SubSeq(s, 1, Len(s) - 1)), s[Len(s)])

RECURSIVE SortedDesc(_)
SortedDesc(s) ==
    IF s = <<>> THEN <<>>
    ELSE InsertDesc(s[Len(s)], SortedDesc(SubSeq(s, 1, Len(s) - 1)))

------------------------------------------------------------------------------
(* reorder(pts)                                                             *)

(* np.argmin / np.argmax: index of the first occurrence of the extreme *)
ArgMin(f) ==
    CHOOSE k \in DOMAIN f :
        /\ \A j \in DOMAIN f : f[k] <= f[j]
        /\ \A j \in DOMAIN f : j < k => f[j] > f[k]

ArgMax(f) ==
    CHOOSE k \in DOMAIN f :
        /\ \A j \in DOMAIN f : f[k] >= f[j]
        /\ \A j \in DOMAIN f : j < k => f[j] < f[k]

(* pts.sum(axis=1) *)
SumOf(pts) == [k \in DOMAIN pts |-> pts[k].x + pts[k].y]

(* np.diff(pts, axis=1) *)
DiffOf(pts) == [k \in DOMAIN pts |-> pts[k].y - pts[k].x]

(* variant: argmin and argmax of diff exchanged *)
reorderDiffFlipped(pts) ==
    LET s    == SumOf(pts)
        diff == DiffOf(pts)
    IN  << F32Pt(pts[ArgMin(s)]),
           F32Pt(pts[ArgMax(diff)]),
           F32Pt(pts[ArgMax(s)]),
           F32Pt(pts[ArgMin(diff)]) >>

(* variant: rows 1 and 2 of new_pts exchanged *)
reorderRowsExchanged(pts) ==
    LET s    == SumOf(pts)
        diff == DiffOf(pts)
    IN  << F32Pt(pts[ArgMin(s)]),
           F32Pt(pts[ArgMax(s)]),
           F32Pt(pts[ArgMin(diff)]),
           F32Pt(pts[ArgMax(diff)]) >>

reorder(pts) ==
    LET s    == SumOf(pts)
        diff == DiffOf(pts)
    IN  << F32Pt(pts[ArgMin(s)]),
           F32Pt(pts[ArgMin(diff)]),
           F32Pt(pts[ArgMax(s)]),
           F32Pt(pts[ArgMax(diff)]) >>

(* variant: rows and columns of img.shape exchanged *)
FullFrameSwapped(im) == << Pt(0, 0), Pt(im.h, 0), Pt(im.h, im.w), Pt(0, im.w) >>

(* variant: the last pixel instead of the size *)
FullFrameInclusive(im) ==
    << Pt(0, 0), Pt(im.w - 1, 0), Pt(im.w - 1, im.h - 1), Pt(0, im.h - 1) >>

(* the quad of the for loop's else branch *)
FullFrame(im) == << Pt(0, 0), Pt(im.w, 0), Pt(im.w, im.h), Pt(0, im.h) >>

------------------------------------------------------------------------------
(* Inputs: polygons that cv2.approxPolyDP can return for a contour          *)

Triangle == << Pt(0, 0), Pt(1, 0), Pt(0, 1) >>

Pentagon == << Pt(0, 0), Pt(2, 0), Pt(3, 1), Pt(2, 2), Pt(0, 2) >>

ExampleRect == << Pt(50, 50), Pt(750, 50), Pt(750, 550), Pt(50, 550) >>

ExampleRectShuffled == << Pt(750, 550), Pt(50, 50), Pt(50, 550), Pt(750, 50) >>

Diamond == << Pt(5, 0), Pt(10, 5), Pt(5, 10), Pt(0, 5) >>

Kite == << Pt(1, 0), Pt(3, 4), Pt(1, 5), Pt(0, 3) >>

Sliver == << Pt(0, 0), Pt(1, 4), Pt(0, 10), Pt(1, 5) >>

Tilted == << Pt(3, 5), Pt(2, 0), Pt(0, 3), Pt(5, 2) >>

NamedPolys ==
    {Triangle, Pentagon, ExampleRect, ExampleRectShuffled, Diamond, Kite, Sliver,
     Tilted}

(* every pixel position of a raster of size im *)
Pixels(im) == {Pt(x, y) : x \in 0..(im.w - 1), y \in 0..(im.h - 1)}

Fits(poly, im) == Range(poly) \subseteq Pixels(im)

(* all 4-vertex polygons with pairwise distinct vertices on the raster *)
GridQuads(im) ==
    {q \in [1..4 -> Pixels(im)] : \A a, b \in 1..4 : a # b => q[a] # q[b]}

Contour(a, poly) == [area |-> a, approx |-> poly]

NamedContours(im) ==
    {Contour(a, poly) : a \in 1..MaxArea, poly \in {n \in NamedPolys : Fits(n, im)}}

ContourLists(im) ==
    UNION {[1..n -> NamedContours(im)] : n \in 0..MaxContours}
    \cup (IF im.w <= MaxDim /\ im.h <= MaxDim
          THEN {<<Contour(1, q)>> : q \in GridQuads(im)}
          ELSE {})

PhotoDim == Dim(800, 600)

ImageDims == {Dim(w, h) : w, h \in 1..MaxDim} \cup {PhotoDim}

Unreadable == [ok |-> FALSE, w |-> 0, h |-> 0]

Readable(im) == [ok |-> TRUE, w |-> im.w, h |-> im.h]

------------------------------------------------------------------------------
(* State machine of one invocation of enhance_scanned_image                 *)

Init ==
    /\ \/ /\ input = Unreadable
          /\ found = <<>>
       \/ \E im \in ImageDims :
             /\ input = Readable(im)
             /\ found \in ContourLists(im)
    /\ pc = "read"
    /\ img = NoDim
    /\ contours = <<>>
    /\ idx = 0
    /\ examined = {}
    /\ usedFallback = FALSE
    /\ doc_cnt = <<>>
    /\ pts1 = <<>>
    /\ widthSq = 0
    /\ heightSq = 0
    /\ matrix = NoMatrix
    /\ scanned = NoDim
    /\ scanned_clean = NoDim
    /\ outFile = NoFile
    /\ err = "none"
    /\ ret = ""
    /\ calls = NoCalls
    /\ conv = NoConv
    /\ req = NoReq
    /\ reqs = NoReqs
    /\ play = NoPlay

(* variant: the None returned by imread is not dereferenced before the      *)
(* stages run                                                               *)
ReadIgnoringNone ==
    /\ pc = "read"
    /\ img' = Dim(input.w, input.h)
    /\ pc' = "edges"
    /\ UNCHANGED <<reqs, play, calls, conv, req, input, found, contours, idx, examined, usedFallback,
                   doc_cnt, pts1, widthSq, heightSq, matrix, scanned,
                   scanned_clean, outFile, err, ret>>

(* img = cv2.imread(input_path); orig = img.copy()                          *)
(* imread returns None for a missing or undecodable file; None.copy()       *)
(* raises AttributeError.                                                   *)
Read ==
    /\ pc = "read"
    /\ IF input.ok
       THEN /\ img' = Dim(input.w, input.h)
            /\ pc' = "edges"
            /\ err' = err
       ELSE /\ img' = img
            /\ pc' = "error"
            /\ err' = "AttributeError"
    /\ UNCHANGED <<reqs, play, calls, conv, req, input, found, contours, idx, examined, usedFallback,
                   doc_cnt, pts1, widthSq, heightSq, matrix, scanned,
                   scanned_clean, outFile, ret>>

(* variant: contour extraction is skipped *)
EdgeDetectSkipsFind ==
    /\ pc = "edges"
    /\ pc' = "select"
    /\ UNCHANGED <<reqs, play, calls, conv, req, input, found, img, contours, idx, examined, usedFallback,
                   doc_cnt, pts1, widthSq, heightSq, matrix, scanned,
                   scanned_clean, outFile, err, ret>>

(* gray, blur, edged *)
EdgeDetect ==
    /\ pc = "edges"
    /\ pc' = "find"
    /\ UNCHANGED <<reqs, play, calls, conv, req, input, found, img, contours, idx, examined, usedFallback,
                   doc_cnt, pts1, widthSq, heightSq, matrix, scanned,
                   scanned_clean, outFile, err, ret>>

(* findContours, then sorted(..., reverse=True) *)
FindContours ==
    /\ pc = "find"
    /\ contours' = SortedDesc(found)
    /\ idx' = 1
    /\ pc' = "select"
    /\ UNCHANGED <<reqs, play, calls, conv, req, input, found, img, examined, usedFallback, doc_cnt, pts1,
                   widthSq, heightSq, matrix, scanned, scanned_clean,
                   outFile, err, ret>>

(* variant: the loop goes on after a match *)
SelectStepNoBreak ==
    /\ pc = "select"
    /\ idx <= Len(contours)
    /\ examined' = examined \cup {idx}
    /\ doc_cnt' = IF Len(contours[idx].approx) = 4
                  THEN contours[idx].approx ELSE doc_cnt
    /\ idx' = idx + 1
    /\ UNCHANGED <<reqs, play, calls, conv, req, input, found, pc, img, contours, usedFallback, pts1, widthSq,
                   heightSq, matrix, scanned, scanned_clean, outFile, err, ret>>

(* one iteration of `for c in contours` *)
SelectStep ==
    /\ pc = "select"
    /\ idx <= Len(contours)
    /\ examined' = examined \cup {idx}
    /\ IF Len(contours[idx].approx) = 4
       THEN /\ doc_cnt' = contours[idx].approx
            /\ pc' = "reorder"
            /\ idx' = idx
       ELSE /\ doc_cnt' = doc_cnt
            /\ pc' = pc
            /\ idx' = idx + 1
    /\ UNCHANGED <<reqs, play, calls, conv, req, input, found, img, contours, usedFallback, pts1, widthSq,
                   heightSq, matrix, scanned, scanned_clean, outFile, err, ret>>

(* the for loop's else branch: the loop ended without break *)
Fallback ==
    /\ pc = "select"
    /\ idx > Len(contours)
    /\ usedFallback' = TRUE
    /\ doc_cnt' = FullFrame(img)
    /\ pc' = "reorder"
    /\ UNCHANGED <<reqs, play, calls, conv, req, input, found, img, contours, idx, examined, pts1, widthSq,
                   heightSq, matrix, scanned, scanned_clean, outFile, err, ret>>

(* pts1 = reorder(doc_cnt) *)
Reorder ==
    /\ pc = "reorder"
    /\ pts1' = reorder(doc_cnt)
    /\ pc' = "rectify"
    /\ UNCHANGED <<reqs, play, calls, conv, req, input, found, img, contours, idx, examined, usedFallback,
                   doc_cnt, widthSq, heightSq, matrix, scanned, scanned_clean,
                   outFile, err, ret>>

(* squares of width and height, from (tl, tr, br, bl) = pts1 *)
WidthSqOf(p) == Max2(NormSq(p[3], p[4]), NormSq(p[2], p[1]))

(* variant: a diagonal taken for a side *)
HeightSqOfDiagonal(p) == Max2(NormSq(p[2], p[4]), NormSq(p[1], p[4]))

HeightSqOf(p) == Max2(NormSq(p[2], p[3]), NormSq(p[1], p[4]))

(* variant: dsize given as (height, width) *)
WarpSizeSwapped(src, w, h) == IF w <= 0 \/ h <= 0 THEN src ELSE Dim(h, w)

(* size of the raster cv2.warpPerspective allocates for dsize = (w, h): an  *)
(* empty dsize makes OpenCV use the size of the source raster.              *)
WarpSize(src, w, h) == IF w <= 0 \/ h <= 0 THEN src ELSE Dim(w, h)

(* width, height, pts2, getPerspectiveTransform, warpPerspective *)
Rectify ==
    /\ pc = "rectify"
    /\ widthSq' = WidthSqOf(pts1)
    /\ heightSq' = HeightSqOf(pts1)
    /\ matrix' = [built |-> TRUE, src |-> pts1,
                  wSq |-> WidthSqOf(pts1), hSq |-> HeightSqOf(pts1)]
    /\ scanned' = WarpSize(img, IntOfSqrt(WidthSqOf(pts1)),
                                IntOfSqrt(HeightSqOf(pts1)))
    /\ pc' = "binarize"
    /\ UNCHANGED <<reqs, play, calls, conv, req, input, found, img, contours, idx, examined, usedFallback,
                   doc_cnt, pts1, scanned_clean, outFile, err, ret>>

(* cvtColor, adaptiveThreshold: same size as the warped raster *)
Binarize ==
    /\ pc = "binarize"
    /\ scanned_clean' = scanned
    /\ pc' = "write"
    /\ UNCHANGED <<reqs, play, calls, conv, req, input, found, img, contours, idx, examined, usedFallback,
                   doc_cnt, pts1, widthSq, heightSq, matrix, scanned,
                   outFile, err, ret>>

(* cv2.imwrite(output_path, scanned_clean); return output_path              *)
(* imwrite reports a failed write by returning False, which is ignored.     *)
Write ==
    /\ pc = "write"
    /\ \E ok \in BOOLEAN :
          outFile' = IF ok
                     THEN [exists |-> TRUE, w |-> scanned_clean.w,
                           h |-> scanned_clean.h]
                     ELSE outFile
    /\ ret' = OutputPath
    /\ pc' = "done"
    /\ UNCHANGED <<reqs, play, calls, conv, req, input, found, img, contours, idx, examined, usedFallback,
                   doc_cnt, pts1, widthSq, heightSq, matrix, scanned,
                   scanned_clean, err>>

Next ==
    \/ Read
    \/ EdgeDetect
    \/ FindContours
    \/ SelectStep
    \/ Fallback
    \/ Reorder
    \/ Rectify
    \/ Binarize
    \/ Write

Spec == Init /\ [][Next]_vars

------------------------------------------------------------------------------
(* Vocabulary of the properties                                             *)

AfterSelect == pc \in {"reorder", "rectify", "binarize", "write", "done"}

AfterReorder == pc \in {"rectify", "binarize", "write", "done"}

AfterRectify == pc \in {"binarize", "write", "done"}

IsQuadAt(k) == Len(contours[k].approx) = 4

SortedByAreaDesc ==
    \A a, b \in 1..Len(contours) : a < b => contours[a].area >= contours[b].area

Distinct4(p) == Len(p) = 4 /\ \A a, b \in 1..4 : a # b => p[a] # p[b]

SVal(p) == p.x + p.y

DVal(p) == p.y - p.x

(* the four corners of the axis-aligned rectangle [x0, x1] x [y0, y1] *)
RectCorners(x0, y0, x1, y1) == {Pt(x0, y0), Pt(x1, y0), Pt(x1, y1), Pt(x0, y1)}

IsRectOf(q, x0, y0, x1, y1) ==
    /\ x0 < x1
    /\ y0 < y1
    /\ Distinct4(q)
    /\ Range(q) = RectCorners(x0, y0, x1, y1)

Xs(q) == {q[k].x : k \in DOMAIN q}

Ys(q) == {q[k].y : k \in DOMAIN q}

IsAxisRect(q) ==
    \E x0, x1 \in Xs(q) : \E y0, y1 \in Ys(q) : IsRectOf(q, x0, y0, x1, y1)

Cross(a, b, c) == (b.x - a.x) * (c.y - b.y) - (b.y - a.y) * (c.x - b.x)

Turns(p) == {Cross(p[1], p[2], p[3]), Cross(p[2], p[3], p[4]),
             Cross(p[3], p[4], p[1]), Cross(p[4], p[1], p[2])}

Convex(p) == (\A t \in Turns(p) : t > 0) \/ (\A t \in Turns(p) : t < 0)

------------------------------------------------------------------------------
(* C1: quad selection is first-match-wins. Over the contours sorted by area *)
(* descending, the accepted quad is the approximation of the earliest       *)
(* contour whose approximation has exactly 4 vertices, the contours         *)
(* examined are exactly those up to it, and none after it is examined.      *)
C1_FirstMatchWins ==
    /\ pc \notin {"read", "edges", "find"} => SortedByAreaDesc
    /\ \A j \in examined : \A m \in 1..(j - 1) : ~IsQuadAt(m)
    /\ (AfterSelect /\ ~usedFallback) =>
          \E k \in 1..Len(contours) :
             /\ IsQuadAt(k)
             /\ \A m \in 1..(k - 1) : ~IsQuadAt(m)
             /\ doc_cnt = contours[k].approx
             /\ examined = 1..k

C1_Witness ==
    /\ pc = "done"
    /\ ~usedFallback
    /\ Len(contours) = 2
    /\ IsQuadAt(1) /\ IsQuadAt(2)
    /\ contours[1].approx # contours[2].approx
    /\ contours[1].area > contours[2].area
    /\ found[1].area < found[2].area
    /\ doc_cnt = contours[1].approx
    /\ examined = {1}

(* C2: the full-frame fallback is used exactly when the contour sequence    *)
(* (the empty one included) is exhausted without a 4-vertex approximation;  *)
(* the quad is then (0,0), (W,0), (W,H), (0,H) of the W x H input and the   *)
(* invocation goes on to the later stages without an error.                 *)
C2_FallbackExactlyWhenExhausted ==
    /\ AfterSelect => (usedFallback <=> \A k \in 1..Len(contours) : ~IsQuadAt(k))
    /\ usedFallback =>
          /\ examined = 1..Len(contours)
          /\ doc_cnt = << Pt(0, 0), Pt(input.w, 0),
                          Pt(input.w, input.h), Pt(0, input.h) >>
          /\ AfterSelect
          /\ err = "none"
          /\ (pc # "done" => ENABLED Next)

C2_Witness ==
    /\ usedFallback
    /\ pc = "done"
    /\ Len(contours) > 0
    /\ input.w # input.h

(* C3: for every quad of 4 distinct points, reorder yields 4 distinct       *)
(* points that are a permutation of the 4 input points.                     *)
C3_ReorderIsPermutation ==
    (AfterReorder /\ Distinct4(doc_cnt)) =>
        /\ Distinct4(pts1)
        /\ Range(pts1) = Range(doc_cnt)

(* C4: reorder returns [TL, TR, BR, BL] where TL is an input point of       *)
(* minimal s = x + y, BR one of maximal s, TR one of minimal d = y - x and  *)
(* BL one of maximal d.                                                     *)
C4_ReorderLabels ==
    AfterReorder =>
        /\ Len(pts1) = 4
        /\ \A k \in 1..4 : pts1[k] \in Range(doc_cnt)
        /\ \A q \in Range(doc_cnt) :
              /\ SVal(pts1[1]) <= SVal(q)
              /\ DVal(pts1[2]) <= DVal(q)
              /\ SVal(pts1[3]) >= SVal(q)
              /\ DVal(pts1[4]) >= DVal(q)

C4_Witness ==
    /\ AfterReorder
    /\ Distinct4(pts1)
    /\ ~IsAxisRect(doc_cnt)
    /\ pts1 # doc_cnt
    /\ DVal(pts1[2]) < DVal(pts1[4])
    /\ SVal(pts1[1]) < SVal(pts1[3])

(* C5: the four corners of an axis-aligned rectangle of positive width and  *)
(* height, in any input order, are ordered so that TL.x <= TR.x,            *)
(* TL.y <= BL.y and TL, TR, BR, BL in that order are convex.                *)
C5_RectangleOrdering ==
    (AfterReorder /\ IsAxisRect(doc_cnt)) =>
        /\ pts1[1].x <= pts1[2].x
        /\ pts1[1].y <= pts1[4].y
        /\ Convex(pts1)

C5_Witness ==
    /\ AfterReorder
    /\ ~usedFallback
    /\ IsAxisRect(doc_cnt)
    /\ doc_cnt[1] = pts1[3]
    /\ doc_cnt[2] = pts1[1]
    /\ doc_cnt[3] = pts1[4]
    /\ doc_cnt[4] = pts1[2]

(* C6: whenever the computed destination width or height is <= 0 the       *)
(* rectification fails with GeometryError: no homography is built, nothing  *)
(* is warped or binarized and no output raster is written.                  *)
C6_GeometryErrorOnDegenerate ==
    (AfterReorder /\ (WidthSqOf(pts1) <= 0 \/ HeightSqOf(pts1) <= 0)) =>
        /\ ~matrix.built
        /\ scanned = NoDim
        /\ ~outFile.exists
        /\ (pc # "rectify" => pc = "error" /\ err = "GeometryError")

(* C7 as stated: a 1x1 input makes rectification raise GeometryError, so    *)
(* the invocation reaches neither binarization nor the output write.        *)
C7_OneByOneRaises ==
    (input.ok /\ input.w = 1 /\ input.h = 1) =>
        /\ ~AfterRectify
        /\ ~outFile.exists
        /\ err \in {"none", "GeometryError"}

(* C7 amended: a 1x1 input takes the full-frame fallback (0,0), (1,0),      *)
(* (1,1), (0,1), whose width and height are both 1, so rectification raises *)
(* nothing: the invocation goes on to binarization and writes a 1x1 raster. *)
C7_OneByOneCompletes ==
    (input.ok /\ input.w = 1 /\ input.h = 1) =>
        /\ err = "none"
        /\ (pc # "done" => ENABLED Next)
        /\ AfterSelect => usedFallback
        /\ AfterRectify =>
              /\ widthSq = 1
              /\ heightSq = 1
              /\ matrix.built
              /\ scanned = Dim(1, 1)
        /\ pc \in {"write", "done"} => scanned_clean = Dim(1, 1)
        /\ outFile.exists => outFile.w = 1 /\ outFile.h = 1

C7_Witness ==
    /\ input.ok /\ input.w = 1 /\ input.h = 1
    /\ pc = "done"
    /\ outFile.exists
    /\ ret = OutputPath

(* the longer of two sides, as a squared length *)
LongerSq(a, b, c, d) ==
    IF NormSq(a, b) >= NormSq(c, d) THEN NormSq(a, b) ELSE NormSq(c, d)

(* n is sqrt(sq) rounded to the nearest integer: |n - sqrt(sq)| <= 1/2 *)
IsNearestToSqrt(n, sq) ==
    /\ n >= 0
    /\ (2 * n - 1) * (2 * n - 1) <= 4 * sq
    /\ 4 * sq < (2 * n + 1) * (2 * n + 1)

(* n is sqrt(sq) truncated toward zero: n <= sqrt(sq) < n + 1 *)
IsTruncOfSqrt(n, sq) ==
    /\ n >= 0
    /\ n * n <= sq
    /\ sq < (n + 1) * (n + 1)

(* C8 as stated: for every CornerSet (4 distinct points) the output raster  *)
(* has width max(|BR-BL|, |TR-TL|) and height max(|TR-BR|, |TL-BL|), each   *)
(* rounded to the nearest integer.                                          *)
C8_SizeRoundedToNearest ==
    (AfterRectify /\ Distinct4(pts1)) =>
        /\ IsNearestToSqrt(scanned.w, LongerSq(pts1[3], pts1[4], pts1[2], pts1[1]))
        /\ IsNearestToSqrt(scanned.h, LongerSq(pts1[2], pts1[3], pts1[1], pts1[4]))

(* C8 amended: for every CornerSet (4 distinct points) the output raster    *)
(* has width max(|BR-BL|, |TR-TL|) and height max(|TR-BR|, |TL-BL|), each   *)
(* truncated toward zero, and the written file has that size.               *)
C8_SizeTruncated ==
    (AfterRectify /\ Distinct4(pts1)) =>
        /\ IsTruncOfSqrt(scanned.w, LongerSq(pts1[3], pts1[4], pts1[2], pts1[1]))
        /\ IsTruncOfSqrt(scanned.h, LongerSq(pts1[2], pts1[3], pts1[1], pts1[4]))
        /\ pc \in {"write", "done"} => scanned_clean = scanned
        /\ outFile.exists => outFile.w = scanned.w /\ outFile.h = scanned.h

C8_Witness ==
    /\ pc = "done"
    /\ outFile.exists
    /\ Distinct4(pts1)
    /\ doc_cnt = Tilted
    /\ widthSq = 13
    /\ outFile.w = 3
    /\ ~IsNearestToSqrt(outFile.w, widthSq)

(* C9: for a blank input of size W x H, W, H >= 1 (no contours), the        *)
(* invocation raises nothing, runs to its end, and the raster it binarizes  *)
(* and writes has width : height = W : H.                                   *)
C9_BlankImageKeepsAspect ==
    (input.ok /\ found = <<>>) =>
        /\ err = "none"
        /\ (pc # "done" => ENABLED Next)
        /\ AfterSelect => usedFallback
        /\ AfterRectify =>
              /\ scanned.w > 0 /\ scanned.h > 0
              /\ scanned.w * input.h = scanned.h * input.w
        /\ pc \in {"write", "done"} =>
              /\ scanned_clean.w > 0 /\ scanned_clean.h > 0
              /\ scanned_clean.w * input.h = scanned_clean.h * input.w
        /\ outFile.exists =>
              /\ outFile.w > 0 /\ outFile.h > 0
              /\ outFile.w * input.h = outFile.h * input.w

C9_Witness ==
    /\ input.ok /\ found = <<>>
    /\ input.w # input.h
    /\ pc = "done"
    /\ outFile.exists
    /\ outFile.w = input.w
    /\ outFile.h = input.h

(* C10: when the selected quad is the axis-aligned rectangle (x0,y0),       *)
(* (x1,y0), (x1,y1), (x0,y1), x0 < x1, y0 < y1, in any order, the rectified *)
(* raster is x1 - x0 wide and y1 - y0 high; the corners (50,50), (750,50),  *)
(* (750,550), (50,550) give 700 x 500.                                      *)
C10_RectangleSize ==
    /\ \A x0, x1 \in Xs(doc_cnt) : \A y0, y1 \in Ys(doc_cnt) :
          (AfterRectify /\ IsRectOf(doc_cnt, x0, y0, x1, y1)) =>
              /\ scanned = Dim(x1 - x0, y1 - y0)
              /\ pc \in {"write", "done"} => scanned_clean = Dim(x1 - x0, y1 - y0)
              /\ outFile.exists => outFile.w = x1 - x0 /\ outFile.h = y1 - y0
    /\ (AfterRectify /\ IsRectOf(doc_cnt, 50, 50, 750, 550)) => scanned = Dim(700, 500)

C10_Witness ==
    /\ pc = "done"
    /\ doc_cnt = ExampleRectShuffled
    /\ outFile.exists
    /\ outFile.w = 700
    /\ outFile.h = 500

(* c = sqrt(sq) - 1, for an integer c and a squared length sq *)
IsSqrtMinusOne(c, sq) == c + 1 >= 0 /\ (c + 1) * (c + 1) = sq

(* the k-th corner of pts2 = [[0,0], [width-1,0], [width-1,height-1],       *)
(* [0,height-1]] equals the point p                                         *)
Pts2CornerIs(k, p) ==
    /\ IF k \in {2, 3} THEN IsSqrtMinusOne(p.x, matrix.wSq) ELSE p.x = 0
    /\ IF k \in {3, 4} THEN IsSqrtMinusOne(p.y, matrix.hSq) ELSE p.y = 0

(* C11: when the quad is the image's own full frame (0,0), (W,0), (W,H),    *)
(* (0,H), each of the four source corners handed to the homography solve    *)
(* equals its destination corner: the transform is the identity.            *)
C11_FullFrameIsIdentity ==
    (usedFallback /\ matrix.built) =>
        \A k \in 1..4 : Pts2CornerIs(k, matrix.src[k])

(* C13 as stated: a missing, empty or undecodable input makes the           *)
(* invocation fail with InputReadError; no stage runs and nothing is        *)
(* written.                                                                 *)
C13_InputReadError ==
    (~input.ok /\ pc # "read") =>
        /\ pc = "error"
        /\ err = "InputReadError"
        /\ ~outFile.exists

NoStageRan ==
    /\ img = NoDim
    /\ contours = <<>>
    /\ idx = 0
    /\ examined = {}
    /\ ~usedFallback
    /\ doc_cnt = <<>>
    /\ pts1 = <<>>
    /\ ~matrix.built
    /\ scanned = NoDim
    /\ scanned_clean = NoDim

(* C13 amended: a missing, empty or undecodable input makes the invocation  *)
(* fail with the AttributeError that img.copy() raises on the None returned *)
(* by imread; it reaches the caller, no stage runs, nothing is written and  *)
(* no path is returned.                                                     *)
C13_ReadFailurePropagates ==
    ~input.ok =>
        /\ pc \in {"read", "error"}
        /\ pc = "error" <=> err = "AttributeError"
        /\ err \in {"none", "AttributeError"}
        /\ NoStageRan
        /\ ~outFile.exists
        /\ ret = ""

C13_Witness ==
    /\ ~input.ok
    /\ pc = "error"
    /\ err = "AttributeError"
    /\ ~ENABLED Next

(* C14: when the output raster could not be written the caller is told so   *)
(* (WriteError): the output path is never returned as a result unless the   *)
(* file was written.                                                        *)
C14_WriteFailureReported ==
    /\ (pc = "done" /\ ret = OutputPath) => outFile.exists
    /\ (pc = "done" /\ ~outFile.exists) => err = "WriteError"

StageRank ==
    [read |-> 0, edges |-> 1, find |-> 2, select |-> 3, reorder |-> 4,
     rectify |-> 5, binarize |-> 6, write |-> 7, done |-> 8, error |-> 9]

(* C15: within one invocation the stages run in the order edge detection,   *)
(* contour extraction, quad selection, corner ordering, rectification,      *)
(* binarization, output write; a stage that was left is never entered       *)
(* again, none is skipped, and the output is written only by the step that  *)
(* follows binarization.                                                    *)
C15_StagesInOrder ==
    [][ /\ pc' # pc =>
             \/ StageRank[pc'] = StageRank[pc] + 1
             \/ pc = "read" /\ pc' = "error"
        /\ outFile' # outFile => pc = "write" /\ scanned_clean = scanned
        /\ scanned_clean' # scanned_clean => pc = "binarize"
        /\ scanned' # scanned => pc = "rectify"
        /\ pts1' # pts1 => pc = "reorder"
        /\ doc_cnt' # doc_cnt => pc = "select"
        /\ contours' # contours => pc = "find"
      ]_vars

C15_Witness ==
    /\ pc = "done"
    /\ outFile.exists
    /\ ~usedFallback
    /\ Len(contours) = 2
    /\ examined = {1, 2}
    /\ Distinct4(pts1)
    /\ scanned_clean = scanned

------------------------------------------------------------------------------
(* Two concurrent invocations of enhance_scanned_image on different images. *)
(* All locals of an invocation are private; the invocations meet only at    *)
(* the file system, where each writes the file at its output_path.          *)

(* the quad the for/else of lines 15-23 leaves in doc_cnt *)
SelectedQuad(sorted, im) ==
    IF \E k \in 1..Len(sorted) : Len(sorted[k].approx) = 4
    THEN sorted[CHOOSE k \in 1..Len(sorted) :
                   /\ Len(sorted[k].approx) = 4
                   /\ \A m \in 1..(k - 1) : Len(sorted[m].approx) # 4].approx
    ELSE FullFrame(im)

(* size of scanned_clean for the image im with contours cnts (lines 7-50) *)
RasterOf(im, cnts) ==
    LET p == reorder(SelectedQuad(SortedDesc(cnts), im))
    IN  WarpSize(im, IntOfSqrt(WidthSqOf(p)), IntOfSqrt(HeightSqOf(p)))

(* a file written by invocation i *)
RasterFile(i, d) == [exists |-> TRUE, w |-> d.w, h |-> d.h, by |-> i]

AbsentFile == [exists |-> FALSE, w |-> 0, h |-> 0, by |-> 0]

(* output_path is the default of line 4 or a name the caller chose *)
CallPaths(i) == {OutputPath, IF i = 1 THEN "out_1.png" ELSE "out_2.png"}

AllCallPaths == CallPaths(1) \cup CallPaths(2)

CallInputs ==
    {[im |-> im, cnts |-> c] :
        im \in ImageDims,
        c \in {<<>>, <<Contour(1, Triangle)>>, <<Contour(1, ExampleRect)>>,
               <<Contour(1, Tilted)>>}}

NewCall(in, path) ==
    [pc |-> "read", im |-> in.im, cnts |-> in.cnts, path |-> path,
     clean |-> NoDim, ret |-> "", got |-> AbsentFile]

InitPair ==
    /\ \E in1, in2 \in CallInputs : \E p1 \in CallPaths(1), p2 \in CallPaths(2) :
          /\ in1 # in2
          /\ \A k \in DOMAIN in1.cnts : Fits(in1.cnts[k].approx, in1.im)
          /\ \A k \in DOMAIN in2.cnts : Fits(in2.cnts[k].approx, in2.im)
          /\ calls = [p |-> << NewCall(in1, p1), NewCall(in2, p2) >>,
                      disk |-> [f \in AllCallPaths |-> AbsentFile]]
    /\ input = Unreadable
    /\ found = <<>>
    /\ pc = "idle"
    /\ img = NoDim
    /\ contours = <<>>
    /\ idx = 0
    /\ examined = {}
    /\ usedFallback = FALSE
    /\ doc_cnt = <<>>
    /\ pts1 = <<>>
    /\ widthSq = 0
    /\ heightSq = 0
    /\ matrix = NoMatrix
    /\ scanned = NoDim
    /\ scanned_clean = NoDim
    /\ outFile = NoFile
    /\ err = "none"
    /\ ret = ""
    /\ conv = NoConv
    /\ req = NoReq
    /\ reqs = NoReqs
    /\ play = NoPlay

pipelineVars == <<input, found, pc, img, contours, idx, examined, usedFallback,
                  doc_cnt, pts1, widthSq, heightSq, matrix, scanned,
                  scanned_clean, outFile, err, ret>>

(* lines 5-6 of invocation i: the input file is only read *)
CallRead(i) ==
    /\ calls.p[i].pc = "read"
    /\ calls' = [calls EXCEPT !.p[i].pc = "stages"]
    /\ UNCHANGED <<pipelineVars, conv, req, reqs, play>>

(* lines 7-50 of invocation i: private rasters only *)
CallStages(i) ==
    /\ calls.p[i].pc = "stages"
    /\ calls' = [calls EXCEPT !.p[i].pc = "write",
                              !.p[i].clean = RasterOf(calls.p[i].im, calls.p[i].cnts)]
    /\ UNCHANGED <<pipelineVars, conv, req, reqs, play>>

(* line 52 of invocation i *)
CallWrite(i) ==
    /\ calls.p[i].pc = "write"
    /\ calls' = [calls EXCEPT !.p[i].pc = "return",
                              !.disk[calls.p[i].path] = RasterFile(i, calls.p[i].clean)]
    /\ UNCHANGED <<pipelineVars, conv, req, reqs, play>>

(* line 54 of invocation i: the caller receives the path, that is the file  *)
(* that is at the path now                                                  *)
CallReturn(i) ==
    /\ calls.p[i].pc = "return"
    /\ calls' = [calls EXCEPT !.p[i].pc = "done",
                              !.p[i].ret = calls.p[i].path,
                              !.p[i].got = calls.disk[calls.p[i].path]]
    /\ UNCHANGED <<pipelineVars, conv, req, reqs, play>>

NextPair ==
    \/ \E i \in 1..2 : CallRead(i)
    \/ \E i \in 1..2 : CallStages(i)
    \/ \E i \in 1..2 : CallWrite(i)
    \/ \E i \in 1..2 : CallReturn(i)

SpecPair == InitPair /\ [][NextPair]_vars

(* C12: under every interleaving of two invocations on different images,    *)
(* what an invocation returns to its caller is the raster computed from its *)
(* own input image, never the other invocation's.                           *)
C12_ConcurrentCallsIsolated ==
    \A i \in DOMAIN calls.p :
        calls.p[i].pc = "done" =>
            calls.p[i].got = RasterFile(i, RasterOf(calls.p[i].im, calls.p[i].cnts))

------------------------------------------------------------------------------
(* install_soundfont.py: get_soundfont_path and midi_to_mp3.                *)
(* A path is a sequence of string tokens, so that str.replace is computed   *)
(* on it: "\\" is the backslash, ".mid" and ".wav" are the extensions.      *)

(* str.replace(old, new): every occurrence *)
ReplaceAll(path, old, new) ==
    [k \in DOMAIN path |-> IF path[k] = old THEN new ELSE path[k]]

(* path.replace('\\', '/') *)
ForwardSlashes(path) == ReplaceAll(path, "\\", "/")

Platforms == {"win32", "darwin", "linux"}

(* os.path.join of a directory and two names *)
JoinPath(platform, dir, a, b) ==
    LET sep == IF platform = "win32" THEN "\\" ELSE "/"
    IN  dir \o <<sep, a, sep, b>>

(* SOUNDFONT_PATHS[system] *)
SOUNDFONT_PATHS(platform) ==
    CASE platform = "linux" ->
            << <<"/usr/share/sounds/sf2/FluidR3_GM.sf2">>,
               <<"/usr/local/share/sounds/sf2/FluidR3_GM.sf2">> >>
      [] platform = "darwin" ->
            << <<"/usr/local/share/sounds/sf2/FluidR3_GM.sf2">>,
               <<"/opt/homebrew/share/sounds/sf2/FluidR3_GM.sf2">> >>
      [] platform = "win32" ->
            << <<"C:", "\\", "soundfonts", "\\", "FluidR3_GM.sf2">>,
               JoinPath("win32", <<"%APPDATA%">>, "soundfonts", "FluidR3_GM.sf2"),
               <<"C:", "\\", "Users", "\\", "varun", "\\", "Downloads", "\\",
                 "SM2AF", "\\", "soundfonts", "\\", "FluidR3_GM.sf2">> >>

(* directories the module can be installed in: dirname(abspath(__file__)) *)
ProjectDirs(platform) ==
    IF platform = "win32"
    THEN { <<"D:", "\\", "SM2AF">> }
    ELSE { <<"/srv/SM2AF">>, <<"/srv/sheet", "\\", "music">> }

(* the candidates in the order get_soundfont_path checks them *)
Candidates(platform, dir) ==
    Append(SOUNDFONT_PATHS(platform),
           JoinPath(platform, dir, "soundfonts", "FluidR3_GM.sf2"))

(* two paths name the same file: Windows takes both separators *)
SameFile(platform, p, q) ==
    IF platform = "win32" THEN ForwardSlashes(p) = ForwardSlashes(q) ELSE p = q

(* os.path.exists(p) on a disk holding the files `present` *)
PathExists(platform, present, p) == \E f \in present : SameFile(platform, p, f)

SoundfontRaised == [raised |-> TRUE, path |-> <<>>]

SoundfontFound(p) == [raised |-> FALSE, path |-> ForwardSlashes(p)]

RECURSIVE FirstExisting(_, _, _, _)
FirstExisting(platform, present, cands, k) ==
    IF k > Len(cands) THEN SoundfontRaised
    ELSE IF PathExists(platform, present, cands[k]) THEN SoundfontFound(cands[k])
    ELSE FirstExisting(platform, present, cands, k + 1)

(* get_soundfont_path(): the path returned or FileNotFoundError *)
get_soundfont_path(platform, present, dir) ==
    FirstExisting(platform, present, Candidates(platform, dir), 1)

(* a file: absent, empty or holding data of some kind *)
Absent == [state |-> "absent", kind |-> ""]

Data(kind) == [state |-> "data", kind |-> kind]

Empty(kind) == [state |-> "empty", kind |-> kind]

MidiPaths == { <<"output_1", ".mid">>, <<"tune", ".mid", "i">>, <<"tune">> }

Mp3Path == <<"output_1", ".mp3">>

(* wav_path = midi_path.replace('.mid', '.wav') *)
WavPathOf(midi) == ReplaceAll(midi, ".mid", ".wav")

(* the soundfont files that can be on the disk *)
SoundfontFiles(platform, dir) ==
    LET c == { Candidates(platform, dir)[k] : k \in DOMAIN Candidates(platform, dir) }
    IN  IF platform = "win32" THEN c ELSE c \cup { ForwardSlashes(p) : p \in c }

NoException == <<>>

(* raise Exception(msg) from inside the try block: the handler runs next *)
Raise(c, msg) == [c EXCEPT !.pc = "handler", !.pending = <<msg>>]

ConvVars(c) == conv' = c /\ UNCHANGED <<pipelineVars, calls, req, reqs, play>>

InitMp3 ==
    /\ \E platform \in Platforms :
       \E dir \in ProjectDirs(platform) :
       \E present \in SUBSET SoundfontFiles(platform, dir) :
       \E midi \in MidiPaths :
       \E midiFile \in {Data("midi"), Absent} :
       \E wavFile \in {Absent, Data("wav")} :
       \E mp3File \in {Absent, Empty("mp3"), Data("mp3")} :
          conv = [pc |-> "start", platform |-> platform, dir |-> dir,
                  present |-> present, midi |-> midi, mp3 |-> Mp3Path,
                  soundfont |-> SoundfontRaised, wav |-> <<>>,
                  disk |-> (Mp3Path :> mp3File) @@ (midi :> midiFile)
                           @@ (WavPathOf(midi) :> wavFile),
                  child |-> "none", rc |-> 0,
                  midi0 |-> midiFile, timedOut |-> FALSE,
                  signals |-> <<>>, rmFailed |-> FALSE,
                  pending |-> NoException, exc |-> NoException]
    /\ input = Unreadable
    /\ found = <<>>
    /\ pc = "idle"
    /\ img = NoDim
    /\ contours = <<>>
    /\ idx = 0
    /\ examined = {}
    /\ usedFallback = FALSE
    /\ doc_cnt = <<>>
    /\ pts1 = <<>>
    /\ widthSq = 0
    /\ heightSq = 0
    /\ matrix = NoMatrix
    /\ scanned = NoDim
    /\ scanned_clean = NoDim
    /\ outFile = NoFile
    /\ err = "none"
    /\ ret = ""
    /\ calls = NoCalls
    /\ req = NoReq
    /\ reqs = NoReqs
    /\ play = NoPlay

(* lines 201-205: soundfont_path = get_soundfont_path(); wav_path = ...     *)
MGetSoundfont ==
    /\ conv.pc = "start"
    /\ LET r == get_soundfont_path(conv.platform, conv.present, conv.dir)
       IN  ConvVars(IF r.raised
                    THEN Raise([conv EXCEPT !.soundfont = r], "SoundFont not found")
                    ELSE [conv EXCEPT !.soundfont = r,
                                      !.wav = WavPathOf(conv.midi),
                                      !.pc = "popen"])

(* lines 222-229: Popen raises FileNotFoundError when there is no           *)
(* fluidsynth executable                                                    *)
MPopen ==
    /\ conv.pc = "popen"
    /\ \E started \in BOOLEAN :
          ConvVars(IF started
                   THEN [conv EXCEPT !.child = "running", !.pc = "communicate"]
                   ELSE Raise(conv, "No such file: fluidsynth"))

(* what the FluidSynth child has done to the file at wav_path (-F wav_path) *)
ChildOutputs == {"untouched", "empty", "data"}

WithChildOutput(disk, wav, out) ==
    CASE out = "untouched" -> disk
      [] out = "empty"     -> [disk EXCEPT ![wav] = Empty("wav")]
      [] out = "data"      -> [disk EXCEPT ![wav] = Data("wav")]

(* line 233: communicate(input="quit\n", timeout=60) returns: the child has *)
(* exited with some return code                                             *)
MCommunicate ==
    /\ conv.pc = "communicate"
    /\ \E rc \in {0, -15, 1} : \E out \in ChildOutputs :
          ConvVars([conv EXCEPT !.child = "exited", !.rc = rc,
                                !.disk = WithChildOutput(conv.disk, conv.wav, out),
                                !.pc = "rc_check"])

(* line 233 raises TimeoutExpired: the child is still running *)
MCommunicateTimeout ==
    /\ conv.pc = "communicate"
    /\ \E out \in ChildOutputs :
          ConvVars([conv EXCEPT !.disk = WithChildOutput(conv.disk, conv.wav, out),
                                !.timedOut = TRUE,
                                !.pc = "terminate"])

(* lines 234-241: terminate(); wait(timeout=5); kill() when the wait times  *)
(* out; raise. kill() sends the signal and does not wait.                   *)
MTerminate ==
    /\ conv.pc = "terminate"
    /\ \E exited \in BOOLEAN :
          ConvVars(Raise([conv EXCEPT !.child = IF exited THEN "exited" ELSE "killed",
                                      !.rc = IF exited THEN -15 ELSE -9,
                                      !.signals = IF exited THEN <<"terminate">>
                                                  ELSE <<"terminate", "kill">>],
                         "FluidSynth conversion timed out"))

(* the killed child goes away on its own *)
MChildGone ==
    /\ conv.pc # "idle"
    /\ conv.child = "killed"
    /\ ConvVars([conv EXCEPT !.child = "exited"])

(* lines 244-248 *)
MReturnCodeCheck ==
    /\ conv.pc = "rc_check"
    /\ ConvVars(IF /\ conv.rc \notin {0, -15}
                   /\ conv.disk[conv.wav].state \in {"absent", "empty"}
                THEN Raise(conv, "FluidSynth failed with return code")
                ELSE [conv EXCEPT !.pc = "wav_check"])

(* lines 251-255 *)
MWavCheck ==
    /\ conv.pc = "wav_check"
    /\ ConvVars(CASE conv.disk[conv.wav].state = "absent" ->
                        Raise(conv, "WAV file was not created")
                  [] conv.disk[conv.wav].state = "empty" ->
                        Raise(conv, "WAV file is empty")
                  [] OTHER -> [conv EXCEPT !.pc = "export"])

(* what AudioSegment.from_wav / export leave at mp3_path *)
ExportOutputs == {"raises", "untouched", "empty", "data"}

(* lines 261-266 *)
MExport ==
    /\ conv.pc = "export"
    /\ \E out \in ExportOutputs :
          ConvVars(CASE out = "raises" -> Raise(conv, "WAV to MP3 conversion failed")
                     [] out = "untouched" -> [conv EXCEPT !.pc = "cleanup"]
                     [] out = "empty" ->
                           [conv EXCEPT !.disk[conv.mp3] = Empty("mp3"), !.pc = "cleanup"]
                     [] out = "data" ->
                           [conv EXCEPT !.disk[conv.mp3] = Data("mp3"), !.pc = "cleanup"])

(* os.path.exists(path) and os.remove(path), the error of remove swallowed *)
RemoveIfExists(disk, path, removable) ==
    IF disk[path].state # "absent" /\ removable
    THEN [disk EXCEPT ![path] = Absent]
    ELSE disk

(* os.remove(path) was tried and raised *)
RemoveFailed(disk, path, removable) == disk[path].state # "absent" /\ ~removable

(* lines 269-274 *)
MCleanupWav ==
    /\ conv.pc = "cleanup"
    /\ \E removable \in BOOLEAN :
          ConvVars([conv EXCEPT !.disk = RemoveIfExists(conv.disk, conv.wav, removable),
                                !.rmFailed = RemoveFailed(conv.disk, conv.wav, removable),
                                !.pc = "mp3_check"])

(* lines 277-283 without the size test of line 280 *)
MMp3CheckExistsOnly ==
    /\ conv.pc = "mp3_check"
    /\ ConvVars(CASE conv.disk[conv.mp3].state = "absent" ->
                        Raise(conv, "MP3 file was not created")
                  [] OTHER -> [conv EXCEPT !.pc = "returned"])

(* lines 277-283, then the normal return *)
MMp3Check ==
    /\ conv.pc = "mp3_check"
    /\ ConvVars(CASE conv.disk[conv.mp3].state = "absent" ->
                        Raise(conv, "MP3 file was not created")
                  [] conv.disk[conv.mp3].state = "empty" ->
                        Raise(conv, "MP3 file is empty")
                  [] OTHER -> [conv EXCEPT !.pc = "returned"])

(* lines 285-294 without the removal of lines 288-293 *)
MHandlerKeepsWav ==
    /\ conv.pc = "handler"
    /\ ConvVars([conv EXCEPT
                    !.exc = <<"MIDI to MP3 conversion failed">> \o conv.pending,
                    !.pending = NoException,
                    !.pc = "raised"])

(* lines 285-294: except Exception as e *)
MHandler ==
    /\ conv.pc = "handler"
    /\ \E removable \in BOOLEAN :
          ConvVars([conv EXCEPT
                       !.disk = RemoveIfExists(conv.disk, WavPathOf(conv.midi), removable),
                       !.rmFailed = RemoveFailed(conv.disk, WavPathOf(conv.midi), removable),
                       !.exc = <<"MIDI to MP3 conversion failed">> \o conv.pending,
                       !.pending = NoException,
                       !.pc = "raised"])

NextMp3 ==
    \/ MGetSoundfont
    \/ MPopen
    \/ MCommunicate
    \/ MCommunicateTimeout
    \/ MTerminate
    \/ MChildGone
    \/ MReturnCodeCheck
    \/ MWavCheck
    \/ MExport
    \/ MCleanupWav
    \/ MMp3Check
    \/ MHandler

SpecMp3 == InitMp3 /\ [][NextMp3]_vars

ConversionFailedPrefix == "MIDI to MP3 conversion failed"

ConvFinished == conv.pc \in {"returned", "raised"}

(* C16: midi_to_mp3 returns normally only when the MP3 file exists and is  *)
(* not empty at the return; every other outcome is an exception whose      *)
(* message starts with 'MIDI to MP3 conversion failed', and every call     *)
(* that has started can go on until it has one of the two outcomes.        *)
C16_Mp3OrPrefixedException ==
    conv.pc # "idle" =>
       /\ conv.pc = "returned" =>
             conv.disk[conv.mp3] = Data("mp3") /\ conv.exc = NoException
       /\ conv.pc = "raised" =>
             Len(conv.exc) = 2 /\ Head(conv.exc) = ConversionFailedPrefix
       /\ conv.pc = "handler" => Len(conv.pending) = 1
       /\ ~ConvFinished => ENABLED (NextMp3 /\ conv'.pc # conv.pc)

C16_Witness ==
    /\ conv.pc = "raised"
    /\ conv.exc = <<ConversionFailedPrefix, "MP3 file is empty">>
    /\ conv.disk[conv.mp3] = Empty("mp3")
    /\ conv.child = "exited"

(* the first candidate that exists, 0 when there is none *)
FirstExistingIndex(platform, present, cands) ==
    LET hits == { k \in DOMAIN cands : PathExists(platform, present, cands[k]) }
    IN  IF hits = {} THEN 0 ELSE CHOOSE k \in hits : \A j \in hits : k <= j

(* C17: get_soundfont_path raises FileNotFoundError exactly when no        *)
(* candidate exists, and a returned path names the first existing          *)
(* candidate, so it names an existing file at the time of the check.       *)
C17_ReturnedSoundfontExists ==
    (conv.pc \notin {"idle", "start"}) =>
       LET cands == Candidates(conv.platform, conv.dir)
           first == FirstExistingIndex(conv.platform, conv.present, cands)
       IN  /\ conv.soundfont.raised <=> first = 0
           /\ ~conv.soundfont.raised =>
                 /\ SameFile(conv.platform, conv.soundfont.path, cands[first])
                 /\ PathExists(conv.platform, conv.present, conv.soundfont.path)

(* ---- the HTTP endpoints of main.py ---- *)

(* the files named after the request (main.py 56-59, prototype.py 26)      *)
ReqFiles == {"temp_upload", "preprocessed", "output_xml", "output_midi", "output_mp3"}

(* the name oemer writes to (prototype.py 15) *)
SharedXml == "output.musicxml"

FileNames == ReqFiles \cup {SharedXml}

Endpoints == {"main", "debug"}

NoResponse == [kind |-> "none", status |-> 0, detail |-> ""]

Response200 == [kind |-> "Response", status |-> 200, detail |-> "audio/mpeg"]

HTTPException(status, detail) ==
    [kind |-> "HTTPException", status |-> status, detail |-> detail]

(* an exception that leaves the handler uncaught *)
Uncaught(class) == [kind |-> class, status |-> 0, detail |-> ""]

DebugInfo(errors) == [kind |-> "debug_info", status |-> 200, detail |-> errors]

NoPending == [class |-> "none", detail |-> ""]

NewRequest(endpoint, stuck, stale) ==
    [pc |-> "save", endpoint |-> endpoint, stuck |-> stuck,
     files |-> [f \in FileNames |->
                   IF f = SharedXml /\ stale THEN "data" ELSE "absent"],
     preBound |-> FALSE, steps |-> <<>>,
     sawXml |-> FALSE, sawMidi |-> FALSE, sawMp3 |-> FALSE,
     pending |-> NoPending, errors |-> "", response |-> NoResponse]

InitHttp ==
    /\ \E endpoint \in Endpoints :
       \E stuck \in SUBSET ReqFiles :
       \E stale \in BOOLEAN :
          req = NewRequest(endpoint, stuck, stale)
    /\ input = Unreadable
    /\ found = <<>>
    /\ pc = "idle"
    /\ img = NoDim
    /\ contours = <<>>
    /\ idx = 0
    /\ examined = {}
    /\ usedFallback = FALSE
    /\ doc_cnt = <<>>
    /\ pts1 = <<>>
    /\ widthSq = 0
    /\ heightSq = 0
    /\ matrix = NoMatrix
    /\ scanned = NoDim
    /\ scanned_clean = NoDim
    /\ outFile = NoFile
    /\ err = "none"
    /\ ret = ""
    /\ calls = NoCalls
    /\ conv = NoConv
    /\ reqs = NoReqs
    /\ play = NoPlay

ReqVars(r) == req' = r /\ UNCHANGED <<pipelineVars, calls, conv, reqs, play>>

(* the step named s has started *)
Step(r, s) == [r EXCEPT !.steps = Append(r.steps, s)]

(* raise HTTPException(status_code=500, detail=...) inside the outer try *)
RaiseHttp(r, detail) ==
    [r EXCEPT !.pc = "except_http",
              !.pending = [class |-> "HTTPException", detail |-> detail]]

(* any other exception raised inside the outer try *)
RaiseOther(r, class) ==
    [r EXCEPT !.pc = "except", !.pending = [class |-> class, detail |-> ""]]

(* for file_path in [...]: if exists: os.remove, the error swallowed *)
CleanedUp(files, stuck) ==
    [f \in FileNames |->
        IF f \in ReqFiles /\ f \notin stuck THEN "absent" ELSE files[f]]

SaveOutcomes == {"saved", "open_fails", "write_fails"}

(* with open(temp_image_path, "wb") as buffer: buffer.write(await read())  *)
SaveUpload(r, out) ==
    CASE out = "saved" ->
            [r EXCEPT !.files["temp_upload"] = "data", !.pc = "preprocess"]
      [] out = "open_fails" -> RaiseOther(r, "OSError")
      [] out = "write_fails" ->
            RaiseOther([r EXCEPT !.files["temp_upload"] = "empty"], "OSError")

(* preprocessed_path = preprocess_image(temp_image_path): Image.open       *)
(* raises on an upload that is not an image                                *)
Preprocess(r, decodable) ==
    IF decodable
    THEN [r EXCEPT !.files["preprocessed"] = "data", !.preBound = TRUE, !.pc = "omr"]
    ELSE RaiseOther(r, "UnidentifiedImageError")

OmrOutcomes == {"generated", "CalledProcessError", "OSError"}

(* process_sheet_music_image: oemer writes output.musicxml; only           *)
(* CalledProcessError is swallowed (prototype.py 32-39)                    *)
AfterOmr(files, out) ==
    IF out = "generated" THEN [files EXCEPT ![SharedXml] = "data"] ELSE files

(* os.rename("output.musicxml", output_xml_path) *)
Renamed(files) ==
    [files EXCEPT !["output_xml"] = files[SharedXml], ![SharedXml] = "absent"]

Mp3Outcomes == {"returned", "raised_untouched", "raised_empty", "raised_data"}

(* midi_to_mp3(output_midi_path, output_mp3_path): a normal return leaves  *)
(* an MP3 with data, an exception leaves the file in any state             *)
AfterMp3(files, out) ==
    [files EXCEPT !["output_mp3"] =
        CASE out = "returned"      -> "data"
          [] out = "raised_untouched" -> files["output_mp3"]
          [] out = "raised_empty"  -> "empty"
          [] out = "raised_data"   -> "data"]

(* main.py 62-67 *)
HSave ==
    /\ req.pc = "save" /\ req.endpoint = "main"
    /\ \E out \in SaveOutcomes : ReqVars(SaveUpload(Step(req, "save"), out))

(* main.py 69-72 *)
HPreprocess ==
    /\ req.pc = "preprocess" /\ req.endpoint = "main"
    /\ \E decodable \in BOOLEAN :
          ReqVars(Preprocess(Step(req, "preprocess"), decodable))

(* main.py 74-80 *)
HOmr ==
    /\ req.pc = "omr" /\ req.endpoint = "main"
    /\ \E out \in OmrOutcomes :
          LET r == [Step(req, "omr") EXCEPT !.files = AfterOmr(req.files, out)]
          IN  ReqVars(IF out = "OSError"
                      THEN RaiseHttp(r, "Failed to process sheet music image")
                      ELSE [r EXCEPT !.pc = "rename"])

(* main.py 82-88 *)
HRename ==
    /\ req.pc = "rename" /\ req.endpoint = "main"
    /\ \E renameOk \in BOOLEAN :
          LET r == Step(req, "rename")
          IN  ReqVars(
                IF req.files[SharedXml] = "absent"
                THEN RaiseHttp(r, "Failed to generate MusicXML - output.musicxml not found")
                ELSE IF renameOk
                THEN [r EXCEPT !.files = Renamed(req.files), !.sawXml = TRUE,
                               !.pc = "midi"]
                ELSE RaiseOther([r EXCEPT !.sawXml = TRUE], "OSError"))

(* main.py 90-99 without the test of line 97 *)
HMidiUnchecked ==
    /\ req.pc = "midi" /\ req.endpoint = "main"
    /\ \E created \in BOOLEAN :
          LET files == IF created THEN [req.files EXCEPT !["output_midi"] = "data"]
                       ELSE req.files
              r == [Step(req, "midi") EXCEPT !.files = files]
          IN  ReqVars([r EXCEPT !.sawMidi = files["output_midi"] # "absent",
                                !.pc = "soundfont"])

(* main.py 90-100: convert_musicxml_to_midi swallows its exceptions        *)
(* (prototype.py 49-56), so only the missing file shows the failure        *)
HMidi ==
    /\ req.pc = "midi" /\ req.endpoint = "main"
    /\ \E created \in BOOLEAN :
          LET files == IF created THEN [req.files EXCEPT !["output_midi"] = "data"]
                       ELSE req.files
              r == [Step(req, "midi") EXCEPT !.files = files]
          IN  ReqVars(IF files["output_midi"] = "absent"
                      THEN RaiseHttp(r, "Failed to generate MIDI - output file not created")
                      ELSE [r EXCEPT !.sawMidi = TRUE, !.pc = "soundfont"])

SoundfontOutcomes == {"exists", "missing", "FileNotFoundError"}

(* main.py 104-110 and 115-117 *)
HSoundfont ==
    /\ req.pc = "soundfont" /\ req.endpoint = "main"
    /\ \E out \in SoundfontOutcomes :
          LET r == Step(req, "soundfont")
          IN  ReqVars(IF out = "exists"
                      THEN [r EXCEPT !.pc = "mp3"]
                      ELSE RaiseHttp(r, "SoundFont not found during MP3 conversion"))

(* main.py 112-126 *)
HMp3 ==
    /\ req.pc = "mp3" /\ req.endpoint = "main"
    /\ \E out \in Mp3Outcomes :
          LET files == AfterMp3(req.files, out)
              r == [Step(req, "mp3") EXCEPT !.files = files]
          IN  ReqVars(
                IF out # "returned"
                THEN RaiseHttp(r, "Failed to convert MIDI to MP3")
                ELSE IF files["output_mp3"] = "absent"
                THEN RaiseHttp(r, "Failed to generate MP3 - output file not created")
                ELSE [r EXCEPT !.pc = "read"])

(* main.py 128-138 *)
HRead ==
    /\ req.pc = "read" /\ req.endpoint = "main"
    /\ \E readable \in BOOLEAN :
          LET r == Step(req, "read")
          IN  ReqVars(
                IF ~readable THEN RaiseOther(r, "OSError")
                ELSE IF req.files["output_mp3"] = "empty"
                THEN RaiseHttp(r, "Generated MP3 file is empty")
                ELSE [r EXCEPT !.sawMp3 = TRUE, !.pc = "cleanup"])

(* main.py 140-159 *)
HCleanup ==
    /\ req.pc = "cleanup" /\ req.endpoint = "main"
    /\ ReqVars([Step(req, "cleanup") EXCEPT
                   !.files = CleanedUp(req.files, req.stuck),
                   !.response = Response200,
                   !.pc = "done"])

(* main.py 161-162: except HTTPException as e: raise e *)
HExceptHttp ==
    /\ req.pc = "except_http" /\ req.endpoint = "main"
    /\ ReqVars([req EXCEPT !.response = HTTPException(500, req.pending.detail),
                           !.pc = "done"])

(* main.py 163-172: the list of line 166 reads preprocessed_path, a local  *)
(* that is unbound until line 71 has assigned it                           *)
HExcept ==
    /\ req.pc = "except" /\ req.endpoint = "main"
    /\ ReqVars(IF ~req.preBound
               THEN [req EXCEPT !.response = Uncaught("UnboundLocalError"),
                                !.pc = "done"]
               ELSE [req EXCEPT !.files = CleanedUp(req.files, req.stuck),
                                !.response = HTTPException(500, "Processing failed"),
                                !.pc = "done"])

(* main.py 190-195 *)
DSave ==
    /\ req.pc = "save" /\ req.endpoint = "debug"
    /\ \E out \in SaveOutcomes : ReqVars(SaveUpload(Step(req, "save"), out))

(* main.py 197-201 *)
DPreprocess ==
    /\ req.pc = "preprocess" /\ req.endpoint = "debug"
    /\ \E decodable \in BOOLEAN :
          ReqVars(Preprocess(Step(req, "preprocess"), decodable))

(* main.py 203-209: no inner try, a missing output.musicxml is passed over *)
DOmr ==
    /\ req.pc = "omr" /\ req.endpoint = "debug"
    /\ \E out \in OmrOutcomes : \E renameOk \in BOOLEAN :
          LET files == AfterOmr(req.files, out)
              r == [Step(req, "omr") EXCEPT !.files = files]
          IN  ReqVars(
                IF out = "OSError" THEN RaiseOther(r, "OSError")
                ELSE IF files[SharedXml] = "absent" THEN [r EXCEPT !.pc = "midi"]
                ELSE IF renameOk
                THEN [r EXCEPT !.files = Renamed(files), !.sawXml = TRUE, !.pc = "midi"]
                ELSE RaiseOther([r EXCEPT !.sawXml = TRUE], "OSError"))

(* main.py 211-215: a MIDI file can only come from an existing MusicXML *)
DMidi ==
    /\ req.pc = "midi" /\ req.endpoint = "debug"
    /\ \E created \in BOOLEAN :
          LET made == created /\ req.files["output_xml"] # "absent"
          IN  ReqVars([Step(req, "midi") EXCEPT
                          !.files["output_midi"] = IF made THEN "data" ELSE @,
                          !.sawMidi = made,
                          !.pc = "mp3"])

(* main.py 217-229 *)
DMp3 ==
    /\ req.pc = "mp3" /\ req.endpoint = "debug"
    /\ \E sf \in SoundfontOutcomes : \E out \in Mp3Outcomes :
          LET r == Step(req, "mp3")
          IN  ReqVars(
                IF sf = "FileNotFoundError"
                THEN [r EXCEPT !.errors = "MP3 conversion error", !.pc = "cleanup"]
                ELSE [r EXCEPT !.files = AfterMp3(req.files, out),
                               !.sawMp3 = (out = "returned"),
                               !.errors = IF out = "returned" THEN @
                                          ELSE "MP3 conversion error",
                               !.pc = "cleanup"])

(* main.py 231-239 *)
DCleanup ==
    /\ req.pc = "cleanup" /\ req.endpoint = "debug"
    /\ ReqVars([Step(req, "cleanup") EXCEPT
                   !.files = CleanedUp(req.files, req.stuck),
                   !.response = DebugInfo(req.errors),
                   !.pc = "done"])

(* main.py 241-243: return debug_info, nothing is removed *)
DExcept ==
    /\ req.pc = "except" /\ req.endpoint = "debug"
    /\ ReqVars([req EXCEPT !.errors = "Processing error",
                           !.response = DebugInfo("Processing error"),
                           !.pc = "done"])

NextHttp ==
    \/ HSave
    \/ HPreprocess
    \/ HOmr
    \/ HRename
    \/ HMidi
    \/ HSoundfont
    \/ HMp3
    \/ HRead
    \/ HCleanup
    \/ HExceptHttp
    \/ HExcept
    \/ DSave
    \/ DPreprocess
    \/ DOmr
    \/ DMidi
    \/ DMp3
    \/ DCleanup
    \/ DExcept

SpecHttp == InitHttp /\ [][NextHttp]_vars

ReqFinished == req.pc = "done"

(* the request's files are gone, those the system refuses to remove aside *)
ReqFilesRemoved == \A f \in ReqFiles \ req.stuck : req.files[f] = "absent"

(* C18: in /process-sheet-music, when a step raised an exception that is   *)
(* not an HTTPException, the handler removes the request's files that      *)
(* exist and raises HTTPException 500 'Processing failed'; the handler     *)
(* never ends with any other exception.                                    *)
C18_UnexpectedErrorHandled ==
    (req.pc # "idle" /\ req.endpoint = "main" /\ ReqFinished) =>
       /\ req.response.kind \in {"Response", "HTTPException"}
       /\ req.pending.class \notin {"none", "HTTPException"} =>
             /\ req.response = HTTPException(500, "Processing failed")
             /\ ReqFilesRemoved

MainSteps ==
    <<"save", "preprocess", "omr", "rename", "midi", "soundfont", "mp3",
      "read", "cleanup">>

Ran(s) == \E k \in DOMAIN req.steps : req.steps[k] = s

(* C19: /process-sheet-music answers 200 audio/mpeg only after, in this    *)
(* order, output.musicxml existed after OMR and was renamed, the MIDI file *)
(* existed after the conversion, and the MP3 existed and was not empty;    *)
(* the first missing artifact ends in an HTTP 500 and no later step runs.  *)
C19_ArtifactsInOrder ==
    (req.pc # "idle" /\ req.endpoint = "main") =>
       /\ req.steps = SubSeq(MainSteps, 1, Len(req.steps))
       /\ req.response.kind = "Response" =>
             /\ req.response = Response200
             /\ req.steps = MainSteps
             /\ req.sawXml /\ req.sawMidi /\ req.sawMp3
       /\ req.sawMidi => req.sawXml /\ Ran("rename")
       /\ req.sawMp3 => req.sawMidi /\ Ran("mp3")
       /\ (Ran("rename") /\ ~req.sawXml) =>
             /\ req.pending =
                  [class |-> "HTTPException",
                   detail |-> "Failed to generate MusicXML - output.musicxml not found"]
             /\ ~Ran("midi")
       /\ (Ran("midi") /\ ~req.sawMidi) =>
             /\ req.pending =
                  [class |-> "HTTPException",
                   detail |-> "Failed to generate MIDI - output file not created"]
             /\ ~Ran("soundfont")
       /\ (Ran("mp3") /\ req.pc # "read" /\ ~req.sawMp3) =>
             /\ req.pending.class \in {"HTTPException", "OSError"}
             /\ req.pending.class = "OSError" => Ran("read")
             /\ ~Ran("cleanup")
       /\ (ReqFinished /\ req.pending.class = "HTTPException") =>
             req.response = HTTPException(500, req.pending.detail)
       /\ ReqFinished => ~ENABLED NextHttp

C19_Witness ==
    /\ req.pc = "done" /\ req.endpoint = "main"
    /\ req.response = Response200
    /\ req.steps = MainSteps
    /\ req.stuck = {}
    /\ ReqFilesRemoved

(* C20: after a request to /process-sheet-music or                         *)
(* /process-sheet-music-debug has finished by any path, none of the        *)
(* request's files remains on disk.                                        *)
C20_NoRequestFileRemains ==
    (req.pc # "idle" /\ ReqFinished) => ReqFilesRemoved

(* C22: after midi_to_mp3 has finished, by a normal return or by an        *)
(* exception, the WAV file derived from the MIDI path is not on disk,      *)
(* provided the removal itself did not fail.                               *)
C22_WavDoesNotRemain ==
    (conv.pc # "idle" /\ ConvFinished /\ ~conv.rmFailed) =>
       conv.disk[WavPathOf(conv.midi)] = Absent

C22_Witness ==
    /\ conv.pc = "raised"
    /\ conv.exc = <<ConversionFailedPrefix, "WAV to MP3 conversion failed">>
    /\ conv.midi = <<"output_1", ".mid">>
    /\ conv.wav = <<"output_1", ".wav">>
    /\ ~conv.rmFailed
    /\ conv.disk[conv.wav] = Absent

(* C23: midi_to_mp3 never deletes or overwrites its input MIDI file: for   *)
(* every midi_path, with or without '.mid' in it, the input file is        *)
(* unchanged after the call, on success and on every failure path.         *)
C23_InputMidiUnchanged ==
    (conv.pc # "idle" /\ ConvFinished) => conv.disk[conv.midi] = conv.midi0

(* C24: when FluidSynth does not finish within the timeout the child is    *)
(* sent terminate, then kill when it has not exited within the further     *)
(* wait, and the call fails with an exception; midi_to_mp3 never finishes  *)
(* while the child is still running.                                       *)
C24_NoReturnWhileChildRuns ==
    (conv.pc # "idle") =>
       /\ (conv.timedOut /\ ConvFinished) =>
             /\ conv.pc = "raised"
             /\ conv.exc = <<ConversionFailedPrefix, "FluidSynth conversion timed out">>
             /\ conv.signals \in { <<"terminate">>, <<"terminate", "kill">> }
       /\ ConvFinished => conv.child \in {"none", "exited"}

(* ---- process_and_play_sheet_music (sheet_music_processsor.py) ---- *)

OmrErrorMessage == "Error during OMR processing."

(* the images one run is given: unreadable, or a raster with no contour,   *)
(* a triangle or a quad                                                    *)
PlayContourLists(im) ==
    { c \in {<<>>, <<Contour(1, Triangle)>>, <<Contour(1, ExampleRect)>>} :
         \A k \in DOMAIN c : Fits(c[k].approx, im) }

NewPlay ==
    [pc |-> "enhance", enhanced_image_path |-> "", omr |-> "none",
     musicxml_path |-> "", convertCalled |-> FALSE, midiGenerated |-> FALSE,
     played |-> FALSE, exc |-> "none", ret |-> ""]

(* process_and_play_sheet_music(image_path) starts by calling              *)
(* enhance_scanned_image(image_path)                                       *)
InitPlay ==
    /\ \/ /\ input = Unreadable
          /\ found = <<>>
       \/ \E im \in ImageDims :
             /\ input = Readable(im)
             /\ found \in PlayContourLists(im)
    /\ pc = "read"
    /\ img = NoDim
    /\ contours = <<>>
    /\ idx = 0
    /\ examined = {}
    /\ usedFallback = FALSE
    /\ doc_cnt = <<>>
    /\ pts1 = <<>>
    /\ widthSq = 0
    /\ heightSq = 0
    /\ matrix = NoMatrix
    /\ scanned = NoDim
    /\ scanned_clean = NoDim
    /\ outFile = NoFile
    /\ err = "none"
    /\ ret = ""
    /\ calls = NoCalls
    /\ conv = NoConv
    /\ req = NoReq
    /\ reqs = NoReqs
    /\ play = NewPlay

PlayVars(p) == play' = p /\ UNCHANGED <<pipelineVars, calls, conv, req, reqs>>

(* line 127: enhanced_image_path = enhance_scanned_image(image_path) *)
PEnhanceReturns ==
    /\ play.pc = "enhance"
    /\ pc = "done"
    /\ PlayVars([play EXCEPT !.enhanced_image_path = ret, !.pc = "run_omr"])

(* line 127: the exception of enhance_scanned_image leaves the function *)
PEnhanceRaises ==
    /\ play.pc = "enhance"
    /\ pc = "error"
    /\ PlayVars([play EXCEPT !.exc = err, !.pc = "raised"])

OmrRuns == {"generated", "CalledProcessError"}

(* run_omr, lines 93-104: None on CalledProcessError, the path otherwise *)
run_omr(out) == IF out = "CalledProcessError" THEN "None" ELSE SharedXml

(* lines 130 and 135 without the test of lines 131-132 *)
PRunOmrUnchecked ==
    /\ play.pc = "run_omr"
    /\ \E out \in OmrRuns :
          PlayVars([play EXCEPT !.omr = out, !.musicxml_path = run_omr(out),
                                !.pc = "convert"])

(* lines 129-132 *)
PRunOmr ==
    /\ play.pc = "run_omr"
    /\ \E out \in OmrRuns :
          LET p == [play EXCEPT !.omr = out, !.musicxml_path = run_omr(out)]
          IN  PlayVars(IF p.musicxml_path = "None"
                       THEN [p EXCEPT !.ret = OmrErrorMessage, !.pc = "returned"]
                       ELSE [p EXCEPT !.pc = "convert"])

PlayOutcomes == {"parse_fails", "write_fails", "playback_fails", "played"}

(* lines 134-135 and convert_and_play_music, lines 107-122: every          *)
(* exception is swallowed; the function then ends without a return value   *)
PConvertAndPlay ==
    /\ play.pc = "convert"
    /\ \E out \in PlayOutcomes :
          LET parsed == play.musicxml_path # "None" /\ out # "parse_fails"
          IN  PlayVars([play EXCEPT
                           !.convertCalled = TRUE,
                           !.midiGenerated = parsed /\ out \in {"playback_fails", "played"},
                           !.played = parsed /\ out = "played",
                           !.ret = "None",
                           !.pc = "returned"])

NextPlay ==
    \/ Read
    \/ EdgeDetect
    \/ FindContours
    \/ SelectStep
    \/ Fallback
    \/ Reorder
    \/ Rectify
    \/ Binarize
    \/ Write
    \/ PEnhanceReturns
    \/ PEnhanceRaises
    \/ PRunOmr
    \/ PConvertAndPlay

SpecPlay == InitPlay /\ [][NextPlay]_vars

(* C25: process_and_play_sheet_music calls convert_and_play_music only     *)
(* when run_omr returned a MusicXML path; when OMR fails the function      *)
(* returns 'Error during OMR processing.' and no MIDI file is generated    *)
(* or played in that run.                                                  *)
C25_ConvertOnlyAfterOmr ==
    (play.pc # "idle") =>
       /\ play.convertCalled =>
             play.omr = "generated" /\ play.musicxml_path = SharedXml
       /\ (play.midiGenerated \/ play.played) => play.convertCalled
       /\ (play.omr = "CalledProcessError") =>
             /\ play.pc = "returned"
             /\ play.ret = OmrErrorMessage
             /\ ~play.convertCalled /\ ~play.midiGenerated /\ ~play.played
       /\ play.pc = "convert" => ENABLED PConvertAndPlay

C25_Witness ==
    /\ play.pc = "returned"
    /\ play.omr = "CalledProcessError"
    /\ play.ret = OmrErrorMessage
    /\ play.enhanced_image_path = OutputPath
    /\ outFile.exists

(* ---- two concurrent requests to /process-sheet-music ---- *)

(* A file is 0 when absent, and otherwise the number of the request whose  *)
(* upload its contents were derived from.                                  *)
NoOwnFiles == [temp_upload |-> 0, output_xml |-> 0, output_midi |-> 0, output_mp3 |-> 0]

NewPairRequest ==
    [pc |-> "save", own |-> NoOwnFiles, omrFailed |-> FALSE,
     touchedOther |-> FALSE, response |-> NoResponse, audioFrom |-> 0]

(* uploads/preprocessed.png and output.musicxml have the same name for     *)
(* every request (prototype.py 15, 26)                                     *)
InitHttpPair ==
    /\ reqs = [r |-> <<NewPairRequest, NewPairRequest>>,
               files |-> [preprocessed |-> 0, shared_xml |-> 0]]
    /\ input = Unreadable
    /\ found = <<>>
    /\ pc = "idle"
    /\ img = NoDim
    /\ contours = <<>>
    /\ idx = 0
    /\ examined = {}
    /\ usedFallback = FALSE
    /\ doc_cnt = <<>>
    /\ pts1 = <<>>
    /\ widthSq = 0
    /\ heightSq = 0
    /\ matrix = NoMatrix
    /\ scanned = NoDim
    /\ scanned_clean = NoDim
    /\ outFile = NoFile
    /\ err = "none"
    /\ ret = ""
    /\ calls = NoCalls
    /\ conv = NoConv
    /\ req = NoReq
    /\ play = NoPlay

(* request i becomes r, the shared files become files *)
PairVars(i, r, files) ==
    /\ reqs' = [reqs EXCEPT !.r[i] = r, !.files = files]
    /\ UNCHANGED <<pipelineVars, calls, conv, req, play>>

(* request i reads, renames or deletes a file with contents f *)
Touch(i, r, f) == [r EXCEPT !.touchedOther = @ \/ f \notin {0, i}]

(* main.py 62-67 *)
RSave(i) ==
    /\ reqs.r[i].pc = "save"
    /\ PairVars(i, [reqs.r[i] EXCEPT !.own.temp_upload = i, !.pc = "preprocess"],
                reqs.files)

(* main.py 69-72, prototype.py 19-29 *)
RPreprocess(i) ==
    /\ reqs.r[i].pc = "preprocess"
    /\ PairVars(i, [reqs.r[i] EXCEPT !.pc = "omr"],
                [reqs.files EXCEPT !.preprocessed = reqs.r[i].own.temp_upload])

(* main.py 74-80, prototype.py 32-39: oemer reads the image at             *)
(* preprocessed_path and writes output.musicxml; its failure is swallowed  *)
ROmr(i) ==
    /\ reqs.r[i].pc = "omr"
    /\ \E recognised \in BOOLEAN :
          LET image == reqs.files.preprocessed
              r == Touch(i, reqs.r[i], image)
          IN  IF recognised /\ image # 0
              THEN PairVars(i, [r EXCEPT !.pc = "exists"],
                            [reqs.files EXCEPT !.shared_xml = image])
              ELSE PairVars(i, [r EXCEPT !.omrFailed = TRUE, !.pc = "exists"],
                            reqs.files)

(* main.py 83 and 86-88: os.path.exists("output.musicxml") *)
RXmlExists(i) ==
    /\ reqs.r[i].pc = "exists"
    /\ PairVars(i, IF reqs.files.shared_xml # 0
                   THEN [reqs.r[i] EXCEPT !.pc = "rename"]
                   ELSE [reqs.r[i] EXCEPT
                            !.pc = "except_http",
                            !.response = HTTPException(500,
                               "Failed to generate MusicXML - output.musicxml not found")],
                reqs.files)

(* main.py 84: os.rename raises FileNotFoundError when the file has gone   *)
(* since line 83                                                           *)
RRename(i) ==
    /\ reqs.r[i].pc = "rename"
    /\ LET xml == reqs.files.shared_xml
       IN  IF xml # 0
           THEN PairVars(i, [Touch(i, reqs.r[i], xml) EXCEPT
                                !.own.output_xml = xml, !.pc = "midi"],
                         [reqs.files EXCEPT !.shared_xml = 0])
           ELSE PairVars(i, [reqs.r[i] EXCEPT !.pc = "except"], reqs.files)

(* main.py 90-100 *)
RMidi(i) ==
    /\ reqs.r[i].pc = "midi"
    /\ \E created \in BOOLEAN :
          PairVars(i, IF created
                      THEN [reqs.r[i] EXCEPT !.own.output_midi = reqs.r[i].own.output_xml,
                                             !.pc = "mp3"]
                      ELSE [reqs.r[i] EXCEPT
                               !.pc = "except_http",
                               !.response = HTTPException(500,
                                  "Failed to generate MIDI - output file not created")],
                   reqs.files)

(* main.py 102-126 *)
RMp3(i) ==
    /\ reqs.r[i].pc = "mp3"
    /\ \E returned \in BOOLEAN :
          PairVars(i, IF returned
                      THEN [reqs.r[i] EXCEPT !.own.output_mp3 = reqs.r[i].own.output_midi,
                                             !.pc = "respond"]
                      ELSE [reqs.r[i] EXCEPT
                               !.pc = "except_http",
                               !.response = HTTPException(500, "Failed to convert MIDI to MP3")],
                   reqs.files)

(* main.py 128-159: read the MP3, remove the five files, answer 200 *)
RRespond(i) ==
    /\ reqs.r[i].pc = "respond"
    /\ PairVars(i, [Touch(i, reqs.r[i], reqs.files.preprocessed) EXCEPT
                       !.audioFrom = reqs.r[i].own.output_mp3,
                       !.own = NoOwnFiles,
                       !.response = Response200,
                       !.pc = "done"],
                [reqs.files EXCEPT !.preprocessed = 0])

(* main.py 161-162 *)
RExceptHttp(i) ==
    /\ reqs.r[i].pc = "except_http"
    /\ PairVars(i, [reqs.r[i] EXCEPT !.pc = "done"], reqs.files)

(* main.py 163-172 *)
RExcept(i) ==
    /\ reqs.r[i].pc = "except"
    /\ PairVars(i, [Touch(i, reqs.r[i], reqs.files.preprocessed) EXCEPT
                       !.own = NoOwnFiles,
                       !.response = HTTPException(500, "Processing failed"),
                       !.pc = "done"],
                [reqs.files EXCEPT !.preprocessed = 0])

NextHttpPair ==
    \/ \E i \in 1..2 : RSave(i)
    \/ \E i \in 1..2 : RPreprocess(i)
    \/ \E i \in 1..2 : ROmr(i)
    \/ \E i \in 1..2 : RXmlExists(i)
    \/ \E i \in 1..2 : RRename(i)
    \/ \E i \in 1..2 : RMidi(i)
    \/ \E i \in 1..2 : RMp3(i)
    \/ \E i \in 1..2 : RRespond(i)
    \/ \E i \in 1..2 : RExceptHttp(i)
    \/ \E i \in 1..2 : RExcept(i)

SpecHttpPair == InitHttpPair /\ [][NextHttpPair]_vars

(* C21: two requests to /process-sheet-music processed concurrently do not *)
(* interfere: neither reads, renames or deletes a file produced for the    *)
(* other, each 200 response is derived from the request's own upload, and  *)
(* a request whose own OMR failed never returns audio.                     *)
C21_RequestsDoNotInterfere ==
    \A i \in DOMAIN reqs.r :
       /\ ~reqs.r[i].touchedOther
       /\ reqs.r[i].response = Response200 =>
             reqs.r[i].audioFrom = i /\ ~reqs.r[i].omrFailed

====
